---- MODULE Spec2Model ----
(***************************************************************************)
(* Portfolio API (src/main.py, src/schemas.py): five HTTP routes over an   *)
(* optional document-store collaborator (the `database` module).           *)
(*                                                                         *)
(* Python values whose type the code inspects are tagged records:          *)
(*   None          [t |-> "null"]                                          *)
(*   a str  s      [t |-> "str",  v |-> s]                                 *)
(*   a list q      [t |-> "list", v |-> q]                                 *)
(* A raw Mongo document is a function from the keys it holds to such       *)
(* values; a key the document lacks is not in its DOMAIN.                  *)
(* A call that may raise returns [ok |-> TRUE, v |-> value] or             *)
(* [ok |-> FALSE, err |-> [class, text]].                                  *)
(* The request payload of POST /api/contact carries name and message as    *)
(* strings (only their length is inspected) and email as a sequence of     *)
(* characters (its syntax is inspected).                                   *)
(* The text of an exception is [head, rest]: str(e) is head \o rest and    *)
(* head is its first ErrorShown characters, so str(e)[:50] is head.        *)
(* String literals are kept in ASCII: the emoji that prefix the /test      *)
(* status texts are left out and the dashes of the titles are hyphens.     *)
(***************************************************************************)
EXTENDS Integers, Sequences, FiniteSets, TLC

VARIABLES
    module,     \* what `from database import ...` resolves to in this process
    project,    \* the collaborator's "project" collection, in storage order
    contact,    \* the collaborator's "contact" collection, in storage order
    nextId,     \* the collaborator's identifier generator
    inserts,    \* every document ever passed to create_document("contact", .)
    last        \* the exchange being answered: its route, inputs and response

vars == <<module, project, contact, nextId, inserts, last>>

\* ------------------------------------------------------------- bounds
MaxContacts == 2
MaxProjects == 13

\* -------------------------------------------------- program constants
Limit == 12
CollectionsShown == 10
ErrorShown == 50
NameMin == 2
MessageMin == 10
MessageMax == 2000

\* ------------------------------------------------------ Python values
None == [t |-> "null"]
Str(s) == [t |-> "str", v |-> s]
List(q) == [t |-> "list", v |-> q]

Ok(x) == [ok |-> TRUE, v |-> x]
Raise(e) == [ok |-> FALSE, err |-> e]

\* An exception of class c whose text is the short string s.
Exc(c, s) == [class |-> c, text |-> [head |-> s, rest |-> ""]]

IsStr(x) == x.t = "str"
IsOptStr(x) == x.t \in {"str", "null"}

\* Python truthiness of an Optional[str]: None and "" are falsy.
Truthy(x) == x.t = "str" /\ x.v # ""

Min(a, b) == IF a <= b THEN a ELSE b

\* seq[:k]
Take(q, k) == SubSeq(q, 1, Min(k, Len(q)))

\* d.get(key, default)
Get(d, key, default) == IF key \in DOMAIN d THEN d[key] ELSE default

\* The string of n copies of s.
RECURSIVE Rep(_, _)
Rep(s, n) ==
    IF n = 0 THEN ""
    ELSE IF n % 2 = 1 THEN s \o Rep(s, n - 1)
    ELSE LET h == Rep(s, n \div 2) IN h \o h

\* list(x): a copy of a list; TypeError for None.
PyList(x) == IF x.t = "list" THEN Ok(x.v) ELSE Raise(Exc("TypeError", "object is not iterable"))

\* ------------------------------------------------ ProjectOut (main.py)
StrListOK(q) == \A i \in 1..Len(q) : q[i] \in STRING

ProjectOutValid(title, summary, tech, thumbnail, live_url, github_url, case_study_url) ==
    /\ IsStr(title)
    /\ IsStr(summary)
    /\ StrListOK(tech)
    /\ IsOptStr(thumbnail)
    /\ IsOptStr(live_url)
    /\ IsOptStr(github_url)
    /\ IsOptStr(case_study_url)

\* ProjectOut(...): the validated model, or ValidationError.
ProjectOut(title, summary, tech, thumbnail, live_url, github_url, case_study_url) ==
    IF ProjectOutValid(title, summary, tech, thumbnail, live_url, github_url, case_study_url)
    THEN Ok([title |-> title, summary |-> summary, tech |-> List(tech),
             thumbnail |-> thumbnail, live_url |-> live_url,
             github_url |-> github_url, case_study_url |-> case_study_url])
    ELSE Raise(Exc("ValidationError", "validation error for ProjectOut"))

\* Mutant of MapDoc: title read without its default, d.get("title").
MapDoc_NoTitleDefault(d) ==
    LET tech == PyList(Get(d, "tech", List(<<>>)))
    IN  IF ~tech.ok THEN tech
        ELSE ProjectOut(Get(d, "title", None),
                        Get(d, "summary", Str("")),
                        tech.v,
                        Get(d, "thumbnail", None),
                        Get(d, "live_url", None),
                        Get(d, "github_url", None),
                        Get(d, "case_study_url", None))

\* The body of the for loop of get_projects: one raw document to one ProjectOut.
MapDoc(d) ==
    LET tech == PyList(Get(d, "tech", List(<<>>)))
    IN  IF ~tech.ok THEN tech
        ELSE ProjectOut(Get(d, "title", Str("Untitled")),
                        Get(d, "summary", Str("")),
                        tech.v,
                        Get(d, "thumbnail", None),
                        Get(d, "live_url", None),
                        Get(d, "github_url", None),
                        Get(d, "case_study_url", None))

\* The curated examples returned when nothing was read from the store.
Fallback ==
    << [title |-> Str("RemoveQ - Media Optimization Layer"),
        summary |-> Str("Reduced bandwidth by 60% and improved Core Web Vitals across stores."),
        tech |-> List(<<"AWS", "CloudFront", "Lambda@Edge", "Shopify">>),
        thumbnail |-> Str("/projects/removeq.jpg"),
        live_url |-> Str("https://example.com/removeq"),
        github_url |-> None,
        case_study_url |-> None],
       [title |-> Str("Shopify CI/CD - Zero-Downtime Deploys"),
        summary |-> Str("Automated theme deployments with rollbacks; eliminated manual errors."),
        tech |-> List(<<"GitHub Actions", "Shopify CLI", "Docker">>),
        thumbnail |-> Str("/projects/shopify-cicd.jpg"),
        live_url |-> None,
        github_url |-> Str("https://github.com/naveenrao/shopify-cicd"),
        case_study_url |-> None],
       [title |-> Str("Next.js SaaS Starter"),
        summary |-> Str("High-performance SaaS foundation with auth, billing, and analytics."),
        tech |-> List(<<"Next.js", "Supabase", "Stripe">>),
        thumbnail |-> Str("/projects/saas-starter.jpg"),
        live_url |-> Str("https://example.com/saas-starter"),
        github_url |-> Str("https://github.com/naveenrao/saas-starter"),
        case_study_url |-> None] >>

\* ------------------------------------- the storage collaborator (database)
\* What `from database import <name>` does: the module is absent
\* (ImportError), raises while it loads, or resolves with db None ("uninit")
\* or with a live db handle ("ready").
Modules == {"absent", "broken", "uninit", "ready"}

Import(mod, e) ==
    CASE mod = "absent" -> Raise([class |-> "ImportError", text |-> e])
      [] mod = "broken" -> Raise([class |-> "Exception", text |-> e])
      [] OTHER -> Ok(mod)

\* get_documents(collection_name, limit=limit) on the collection `docs`:
\* the first `limit` documents in storage order; it raises when db is None
\* or when the query fails.
get_documents(mod, docs, limit, fails) ==
    IF mod # "ready" \/ fails
    THEN Raise(Exc("Exception", "Database not available"))
    ELSE Ok(Take(docs, limit))

\* The identifier the collaborator generates for its n-th insert.
IdOf(n) == "id" \o ToString(n)

\* create_document(collection_name, data) on the collection `docs`: appends
\* the document under a fresh identifier and returns the identifier; it
\* raises when db is None or when the write fails.
create_document(mod, docs, nid, data, fails) ==
    IF mod # "ready" \/ fails
    THEN Raise(Exc("Exception", "Database not available"))
    ELSE Ok([id |-> IdOf(nid),
             docs |-> Append(docs, [id |-> IdOf(nid), data |-> data]),
             nextId |-> nid + 1])

\* ------------------------------------------------ GET /api/projects
\* Mutant of MapAll: the try/except inside the loop, a bad document skipped.
RECURSIVE MapAll_SkipBad(_, _, _)
MapAll_SkipBad(docs, i, out) ==
    IF i > Len(docs) THEN Ok(out)
    ELSE LET r == MapDoc(docs[i])
         IN  MapAll_SkipBad(docs, i + 1, IF r.ok THEN Append(out, r.v) ELSE out)

\* for d in docs: out.append(ProjectOut(...)), from document i on.
RECURSIVE MapAll(_, _, _)
MapAll(docs, i, out) ==
    IF i > Len(docs) THEN Ok(out)
    ELSE LET r == MapDoc(docs[i])
         IN  IF r.ok THEN MapAll(docs, i + 1, Append(out, r.v)) ELSE r

\* The try block of get_projects: Ok(out) when it reaches `if out:`.
ProjectsTry(mod, docs, fails) ==
    LET imp == Import(mod, [head |-> "", rest |-> ""])
    IN  IF ~imp.ok THEN imp
        ELSE LET got == get_documents(mod, docs, Limit, fails)
             IN  IF ~got.ok THEN got ELSE MapAll(got.v, 1, <<>>)

\* Mutant of get_projects: `if out:` left out, an empty result returned.
get_projects_NoEmptyCheck(mod, docs, fails) ==
    LET t == ProjectsTry(mod, docs, fails)
    IN  IF t.ok THEN Ok(t.v) ELSE Ok(Fallback)

\* get_projects(): the value the handler returns.
get_projects(mod, docs, fails) ==
    LET t == ProjectsTry(mod, docs, fails)
    IN  IF t.ok /\ t.v # <<>> THEN Ok(t.v) ELSE Ok(Fallback)

\* ------------------------------------------------ Contact (schemas.py)
\* EmailStr: one "@", a dot-atom before it, a dotted domain after it.
Atext == {"a", "b", "c", "d", "m", "o"}

DotAtom(s) ==
    /\ Len(s) > 0
    /\ s[1] # "."
    /\ s[Len(s)] # "."
    /\ \A i \in 1..Len(s) : s[i] \in Atext \cup {"."}
    /\ \A i \in 1..(Len(s) - 1) : ~(s[i] = "." /\ s[i + 1] = ".")

IsEmail(e) ==
    LET ats == {i \in 1..Len(e) : e[i] = "@"}
    IN  /\ Cardinality(ats) = 1
        /\ LET at == CHOOSE i \in ats : TRUE
               dom == SubSeq(e, at + 1, Len(e))
           IN  /\ DotAtom(SubSeq(e, 1, at - 1))
               /\ DotAtom(dom)
               /\ \E i \in 1..Len(dom) : dom[i] = "."

ContactValid(name, email, message) ==
    /\ Len(name) >= NameMin
    /\ IsEmail(email)
    /\ Len(message) >= MessageMin
    /\ Len(message) <= MessageMax

\* Mutant of Contact: the Field constraints left out.
Contact_Unchecked(name, email, message) ==
    Ok([name |-> name, email |-> email, message |-> message])

\* Contact(name=..., email=..., message=...): the model, or ValidationError.
Contact(name, email, message) ==
    IF ContactValid(name, email, message)
    THEN Ok([name |-> name, email |-> email, message |-> message])
    ELSE Raise(Exc("ValidationError", "validation error for Contact"))

\* ------------------------------------------------ POST /api/contact
ContactFields == {"name", "email", "message"}

\* ContactIn, the request model: three required strings, no constraints.
ContactIn(payload) == ContactFields \subseteq DOMAIN payload

Note == "Stored in-memory fallback not enabled. DB may be disabled in this environment."

\* Mutant of ContactTry: the write retried after it succeeded.
ContactTry_Retry(payload, mod, docs, nid, fails) ==
    LET imp == Import(mod, [head |-> "", rest |-> ""])
        c == Contact(payload.name, payload.email, payload.message)
        w == create_document(mod, docs, nid, c.v, fails)
        w2 == create_document(mod, w.v.docs, w.v.nextId, c.v, fails)
    IN  IF ~imp.ok THEN [r |-> imp, calls |-> <<>>, docs |-> docs, nextId |-> nid]
        ELSE IF ~c.ok THEN [r |-> c, calls |-> <<>>, docs |-> docs, nextId |-> nid]
        ELSE IF ~w.ok THEN [r |-> w, calls |-> <<c.v>>, docs |-> docs, nextId |-> nid]
        ELSE [r |-> Ok(w2.v.id), calls |-> <<c.v, c.v>>, docs |-> w2.v.docs, nextId |-> w2.v.nextId]

\* The try block of post_contact. calls: the documents handed to
\* create_document; docs, nextId: the collection and generator afterwards.
ContactTry(payload, mod, docs, nid, fails) ==
    LET imp == Import(mod, [head |-> "", rest |-> ""])
        c == Contact(payload.name, payload.email, payload.message)
        w == create_document(mod, docs, nid, c.v, fails)
    IN  IF ~imp.ok THEN [r |-> imp, calls |-> <<>>, docs |-> docs, nextId |-> nid]
        ELSE IF ~c.ok THEN [r |-> c, calls |-> <<>>, docs |-> docs, nextId |-> nid]
        ELSE IF ~w.ok THEN [r |-> w, calls |-> <<c.v>>, docs |-> docs, nextId |-> nid]
        ELSE [r |-> Ok(w.v.id), calls |-> <<c.v>>, docs |-> w.v.docs, nextId |-> w.v.nextId]

\* Mutant of post_contact: no except clause, the exception escapes.
post_contact_Propagates(payload, mod, docs, nid, fails) ==
    LET t == ContactTry(payload, mod, docs, nid, fails)
    IN  [r |-> IF t.r.ok THEN Ok([success |-> TRUE, id |-> Str(t.r.v)]) ELSE t.r,
         calls |-> t.calls, docs |-> t.docs, nextId |-> t.nextId]

\* Mutant of post_contact: the identifier dropped from the success response.
post_contact_NoId(payload, mod, docs, nid, fails) ==
    LET t == ContactTry(payload, mod, docs, nid, fails)
    IN  [r |-> IF t.r.ok
               THEN Ok([success |-> TRUE, id |-> None])
               ELSE Ok([success |-> TRUE, id |-> None, note |-> Note]),
         calls |-> t.calls, docs |-> t.docs, nextId |-> t.nextId]

\* post_contact(payload): the value the handler returns and its effects.
post_contact(payload, mod, docs, nid, fails) ==
    LET t == ContactTry(payload, mod, docs, nid, fails)
    IN  [r |-> IF t.r.ok
               THEN Ok([success |-> TRUE, id |-> Str(t.r.v)])
               ELSE Ok([success |-> TRUE, id |-> None, note |-> Note]),
         calls |-> t.calls, docs |-> t.docs, nextId |-> t.nextId]

\* ------------------------------------------------ GET /test
DbName == "portfolio"

Response0 ==
    [backend |-> "Running",
     database |-> "Not Available",
     database_url |-> None,
     database_name |-> None,
     connection_status |-> "Not Connected",
     collections |-> <<>>]

\* The outer try block of test_database, from `from database import db`.
\* listing: what db.list_collection_names() does, Ok(names) or Raise(e).
TestTry(mod, hasName, listing, e) ==
    LET imp == Import(mod, e)
        r1 == [Response0 EXCEPT
                  !.database = "Available",
                  !.database_url = Str("Configured"),
                  !.database_name = IF hasName THEN Str(DbName) ELSE Str("Connected"),
                  !.connection_status = "Connected"]
    IN  IF ~imp.ok THEN imp
        ELSE IF mod = "uninit"
        THEN Ok([Response0 EXCEPT !.database = "Available but not initialized"])
        ELSE IF listing.ok
        THEN Ok([r1 EXCEPT !.collections = Take(listing.v, CollectionsShown),
                           !.database = "Connected & Working"])
        ELSE Ok([r1 EXCEPT !.database = "Connected but Error: " \o listing.err.text.head])

\* Mutant of TestExcept: only `except ImportError`.
TestExcept_ImportOnly(t) ==
    IF t.ok THEN t
    ELSE IF t.err.class = "ImportError"
    THEN Ok([Response0 EXCEPT !.database = "Database module not found (run enable-database first)"])
    ELSE t

\* The two except clauses of test_database.
TestExcept(t) ==
    IF t.ok THEN t
    ELSE IF t.err.class = "ImportError"
    THEN Ok([Response0 EXCEPT !.database = "Database module not found (run enable-database first)"])
    ELSE Ok([Response0 EXCEPT !.database = "Error: " \o t.err.text.head])

\* os.getenv presence report, written over whatever the try block left.
EnvReport(r, envUrl, envName) ==
    [r EXCEPT !.database_url = Str(IF Truthy(envUrl) THEN "Set" ELSE "Not Set"),
              !.database_name = Str(IF Truthy(envName) THEN "Set" ELSE "Not Set")]

\* Mutant of test_database: the presence report written before the try
\* block, which then writes over it.
test_database_EnvFirst(mod, hasName, listing, e, envUrl, envName) ==
    LET t == TestExcept(TestTry(mod, hasName, listing, e))
        env == EnvReport(Response0, envUrl, envName)
    IN  IF ~t.ok THEN t
        ELSE Ok([t.v EXCEPT
                    !.database_url = IF t.v.database_url = None THEN env.database_url ELSE @,
                    !.database_name = IF t.v.database_name = None THEN env.database_name ELSE @])

\* test_database(): the value the handler returns.
test_database(mod, hasName, listing, e, envUrl, envName) ==
    LET t == TestExcept(TestTry(mod, hasName, listing, e))
    IN  IF t.ok THEN Ok(EnvReport(t.v, envUrl, envName)) ELSE t

\* ------------------------------------------------ GET / and /api/hello
read_root == Ok([message |-> "Portfolio API running"])

hello == Ok([message |-> "Hello from the backend API!"])

\* What the framework sends for a handler's result: its value with 200, or
\* 500 when an exception escaped the handler.
Http(result) ==
    IF result.ok THEN [status |-> 200, body |-> result.v]
    ELSE [status |-> 500, body |-> [detail |-> "Internal Server Error"]]

\* What the framework sends when the request body fails ContactIn.
Unprocessable(payload) ==
    [status |-> 422, body |-> [detail |-> ContactFields \ DOMAIN payload]]

\* ------------------------------------------------ inputs and stores
\* Raw documents of the "project" collection; n numbers the document.
DocFull(n) ==
    [title |-> Str("Project " \o ToString(n)),
     summary |-> Str("Summary " \o ToString(n)),
     tech |-> List(<<"Go", "Redis">>),
     thumbnail |-> Str("/t.jpg"),
     live_url |-> Str("https://live.example"),
     github_url |-> Str("https://github.com/x/y"),
     case_study_url |-> Str("https://case.example")]

DocTitleOnly(n) == [title |-> Str("Project " \o ToString(n))]

DocBare(n) == [owner |-> Str("u" \o ToString(n))]

DocPartial(n) ==
    [title |-> Str(""), summary |-> Str("Summary " \o ToString(n)),
     tech |-> List(<<>>), github_url |-> None]

GoodDoc(n) ==
    CASE n % 4 = 1 -> DocFull(n)
      [] n % 4 = 2 -> DocTitleOnly(n)
      [] n % 4 = 3 -> DocBare(n)
      [] OTHER -> DocPartial(n)

\* Documents ProjectOut refuses: title None; tech None.
BadKinds == {"title", "tech"}

BadDoc(n, k) ==
    IF k = "title"
    THEN [title |-> None, summary |-> Str("Summary " \o ToString(n))]
    ELSE [title |-> Str("Project " \o ToString(n)), tech |-> None]

\* A collection of n documents, document b (if any) of bad kind k.
Store(n, b, k) == [i \in 1..n |-> IF i = b THEN BadDoc(i, k) ELSE GoodDoc(i)]

ProjectLens == 0..MaxProjects

ProjectStores ==
    {Store(n, 0, "title") : n \in ProjectLens}
        \cup UNION {{Store(n, b, k) : b \in {1, n}, k \in BadKinds} : n \in ProjectLens \ {0}}

\* Request bodies of POST /api/contact.
Names == {"A", "Al"}

Emails ==
    { <<"a", "@", "b", ".", "c", "o", "m">>,
      <<"b", "a", "d">>,
      <<"a", "@", "b">>,
      <<"@", "b", ".", "c", "o", "m">> }

Messages == {Rep("m", n) : n \in {MessageMin - 1, MessageMin, MessageMax, MessageMax + 1}}

Payloads ==
    [name : Names, email : Emails, message : Messages]
        \cup {[name |-> "Al", email |-> <<"a", "@", "b", ".", "c", "o", "m">>]}

\* Exception texts: a short one, and one longer than ErrorShown.
ErrTexts == {[head |-> "boom", rest |-> ""], [head |-> Rep("e", ErrorShown), rest |-> "xyz"]}

\* What os.getenv returns: None, the empty string, a value.
EnvValues == {None, Str(""), Str("mongodb://localhost:27017")}

\* What db.list_collection_names() returns or raises.
CollectionNames(n) == [i \in 1..n |-> "c" \o ToString(i)]

Listings(e) ==
    {Ok(CollectionNames(n)) : n \in {0, CollectionsShown, CollectionsShown + 1}}
        \cup {Raise([class |-> "Exception", text |-> e])}

NoRequest == [route |-> "none", in |-> None, status |-> 0, body |-> None, calls |-> <<>>]

\* ------------------------------------------------ the state machine
Init ==
    /\ module \in Modules
    /\ project \in ProjectStores
    /\ contact = <<>>
    /\ nextId = 1
    /\ inserts = {}
    /\ last = NoRequest

ReadRoot ==
    /\ last = NoRequest
    /\ last' = [route |-> "/", in |-> None, calls |-> <<>>] @@ Http(read_root)
    /\ UNCHANGED <<module, project, contact, nextId, inserts>>

Hello ==
    /\ last = NoRequest
    /\ last' = [route |-> "/api/hello", in |-> None, calls |-> <<>>] @@ Http(hello)
    /\ UNCHANGED <<module, project, contact, nextId, inserts>>

TestDatabase ==
    /\ last = NoRequest
    /\ \E hasName \in BOOLEAN, e \in ErrTexts, envUrl \in EnvValues, envName \in EnvValues :
       \E listing \in Listings(e) :
        /\ last' = [route |-> "/test",
                    in |-> [hasName |-> hasName, listing |-> listing, e |-> e,
                            envUrl |-> envUrl, envName |-> envName],
                    calls |-> <<>>]
                   @@ Http(test_database(module, hasName, listing, e, envUrl, envName))
        /\ UNCHANGED <<module, project, contact, nextId, inserts>>

GetProjects ==
    /\ last = NoRequest
    /\ \E fails \in BOOLEAN :
        /\ last' = [route |-> "/api/projects", in |-> [fails |-> fails], calls |-> <<>>]
                   @@ Http(get_projects(module, project, fails))
        /\ UNCHANGED <<module, project, contact, nextId, inserts>>

PostContact ==
    /\ last = NoRequest
    /\ \E payload \in Payloads, fails \in BOOLEAN :
        IF ~ContactIn(payload)
        THEN /\ last' = [route |-> "/api/contact",
                         in |-> [payload |-> payload, fails |-> fails],
                         calls |-> <<>>] @@ Unprocessable(payload)
             /\ UNCHANGED <<module, project, contact, nextId, inserts>>
        ELSE LET h == post_contact(payload, module, contact, nextId, fails)
             IN  /\ Len(h.docs) <= MaxContacts
                 /\ last' = [route |-> "/api/contact",
                             in |-> [payload |-> payload, fails |-> fails],
                             calls |-> h.calls] @@ Http(h.r)
                 /\ contact' = h.docs
                 /\ nextId' = h.nextId
                 /\ inserts' = inserts \cup {h.calls[i] : i \in 1..Len(h.calls)}
                 /\ UNCHANGED <<module, project>>

\* The response is sent; nothing of the request is kept.
Respond ==
    /\ last # NoRequest
    /\ last' = NoRequest
    /\ UNCHANGED <<module, project, contact, nextId, inserts>>

Next == ReadRoot \/ Hello \/ TestDatabase \/ GetProjects \/ PostContact \/ Respond

Spec == Init /\ [][Next]_vars

\* ------------------------------------------------ the claims
IsPost == last.route = "/api/contact" /\ ContactIn(last.in.payload)

PayloadValid ==
    /\ Len(last.in.payload.name) >= NameMin
    /\ IsEmail(last.in.payload.email)
    /\ Len(last.in.payload.message) >= MessageMin
    /\ Len(last.in.payload.message) <= MessageMax

IsProjects == last.route = "/api/projects"

IsTest == last.route = "/test"

\* The collaborator cannot serve: the module did not resolve or db is None.
Unavailable == module \in {"absent", "broken", "uninit"}

\* What a working fetch hands to get_projects.
Fetched == Take(project, Limit)

\* A raw document that fits the Project shape wherever it has a field.
ValidProjectDoc(d) ==
    /\ "title" \in DOMAIN d => d.title.t = "str"
    /\ "summary" \in DOMAIN d => d.summary.t = "str"
    /\ "tech" \in DOMAIN d => d.tech.t = "list"
    /\ \A k \in {"thumbnail", "live_url", "github_url", "case_study_url"} :
           k \in DOMAIN d => d[k].t \in {"str", "null"}

\* The Project record of section 3 for a raw document.
Defaulted(d) ==
    [title |-> IF "title" \in DOMAIN d THEN d.title ELSE Str("Untitled"),
     summary |-> IF "summary" \in DOMAIN d THEN d.summary ELSE Str(""),
     tech |-> IF "tech" \in DOMAIN d THEN d.tech ELSE List(<<>>),
     thumbnail |-> IF "thumbnail" \in DOMAIN d THEN d.thumbnail ELSE None,
     live_url |-> IF "live_url" \in DOMAIN d THEN d.live_url ELSE None,
     github_url |-> IF "github_url" \in DOMAIN d THEN d.github_url ELSE None,
     case_study_url |-> IF "case_study_url" \in DOMAIN d THEN d.case_study_url ELSE None]

\* C1: a POST /api/contact whose name is shorter than 2, whose email is no
\* valid address or whose message is shorter than 10 or longer than 2000 is
\* answered with a client-error status and no insert is attempted, in every
\* collaborator state.
C1_InvalidRejected ==
    (IsPost /\ ~PayloadValid) =>
        /\ last.status \in 400..499
        /\ last.calls = <<>>

\* C2: GET /api/projects answers 200 with the same fixed three-record
\* fallback when the collaborator is absent, when its fetch raises and when
\* it returns no document.
C2_FallbackTriggers ==
    (IsProjects /\ (Unavailable \/ last.in.fails \/ project = <<>>)) =>
        /\ last.status = 200
        /\ last.body = Fallback
        /\ Len(last.body) = 3

C2_Witness ==
    /\ IsProjects
    /\ module = "ready"
    /\ ~last.in.fails
    /\ project = <<>>
    /\ last.body = Fallback

\* C3: when the fetch returns n >= 1 valid documents, GET /api/projects
\* answers with one record per document, in storage order, at most 12, each
\* field the document's own when present and its default when absent.
C3_MappedDocuments ==
    (/\ IsProjects
     /\ module = "ready"
     /\ ~last.in.fails
     /\ Len(Fetched) >= 1
     /\ \A i \in 1..Len(Fetched) : ValidProjectDoc(Fetched[i])) =>
        /\ last.status = 200
        /\ Len(last.body) = Min(Len(project), 12)
        /\ \A i \in 1..Len(last.body) : last.body[i] = Defaulted(project[i])

C3_Witness ==
    /\ IsProjects
    /\ module = "ready"
    /\ ~last.in.fails
    /\ Len(project) > 12
    /\ \A i \in 1..Len(Fetched) : ValidProjectDoc(Fetched[i])
    /\ Len(last.body) = 12
    /\ last.body[3].title = Str("Untitled")

\* C4: a valid payload whose persistence fails (collaborator absent, or the
\* write raises) is answered 200 with success true, id null and a non-empty
\* note.
C4_SoftSuccess ==
    (IsPost /\ PayloadValid /\ (Unavailable \/ last.in.fails)) =>
        /\ last.status = 200
        /\ last.body.success = TRUE
        /\ last.body.id = None
        /\ "note" \in DOMAIN last.body
        /\ Len(last.body.note) > 0

C4_Witness ==
    /\ IsPost
    /\ PayloadValid
    /\ module = "ready"
    /\ last.in.fails
    /\ last.calls # <<>>
    /\ last.body.id = None

\* C5: a valid payload the collaborator accepts is answered with success
\* true and the identifier generated for that insert, and exactly one
\* insert into "contact" was made for the request.
C5_StoredWithId ==
    (IsPost /\ PayloadValid /\ module = "ready" /\ ~last.in.fails) =>
        /\ last.status = 200
        /\ last.body.success = TRUE
        /\ Len(last.calls) = 1
        /\ Len(contact) >= 1
        /\ LET d == contact[Len(contact)]
           IN  /\ last.body.id = Str(d.id)
               /\ d.data = last.calls[1]
               /\ d.data = [name |-> last.in.payload.name,
                            email |-> last.in.payload.email,
                            message |-> last.in.payload.message]
               /\ Cardinality({i \in 1..Len(contact) : contact[i].id = d.id}) = 1

C5_Witness ==
    /\ IsPost
    /\ PayloadValid
    /\ module = "ready"
    /\ ~last.in.fails
    /\ Len(contact) = 2
    /\ last.body.id = Str(contact[2].id)
    /\ contact[1].id # contact[2].id

TestFields ==
    {"backend", "database", "database_url", "database_name", "connection_status", "collections"}

\* C6: GET /test answers 200 with the diagnostic object in every
\* collaborator state; only the status fields of the body vary.
C6_TestNeverErrors ==
    IsTest =>
        /\ last.status = 200
        /\ DOMAIN last.body = TestFields
        /\ last.body.backend = "Running"

C6_Witness ==
    /\ IsTest
    /\ module = "broken"
    /\ last.status = 200
    /\ last.body.connection_status = "Not Connected"

\* C7 as stated: each of database_url and database_name is Set exactly when
\* its setting is present in the process environment.
C7_SetIffPresent ==
    IsTest =>
        /\ (last.body.database_url = Str("Set")) <=> (last.in.envUrl # None)
        /\ (last.body.database_name = Str("Set")) <=> (last.in.envName # None)

\* C7 as amended: each of database_url and database_name is Set exactly when
\* its setting is present with a non-empty value and Not Set otherwise,
\* whatever the collaborator state; neither the setting's value nor the
\* collaborator's database name appears in them.
C7_SetIffNonEmpty ==
    IsTest =>
        /\ last.body.database_url =
               Str(IF last.in.envUrl # None /\ last.in.envUrl # Str("") THEN "Set" ELSE "Not Set")
        /\ last.body.database_name =
               Str(IF last.in.envName # None /\ last.in.envName # Str("") THEN "Set" ELSE "Not Set")
        /\ last.body.database_url \notin {last.in.envUrl, Str(DbName)}
        /\ last.body.database_name \notin {last.in.envName, Str(DbName)}

C7_Witness ==
    /\ IsTest
    /\ module = "ready"
    /\ last.in.hasName
    /\ last.in.listing.ok
    /\ last.in.envUrl = Str("")
    /\ last.in.envName = Str("mongodb://localhost:27017")
    /\ last.body.database_url = Str("Not Set")
    /\ last.body.database_name = Str("Set")

C9_AllOrNothing ==
    IsProjects =>
        /\ last.status = 200
        /\ Len(last.body) >= 1
        /\ \/ last.body = Fallback
           \/ /\ module = "ready"
              /\ ~last.in.fails
              /\ Len(last.body) = Len(Fetched)
              /\ \A i \in 1..Len(Fetched) :
                     ValidProjectDoc(Fetched[i]) /\ last.body[i] = Defaulted(Fetched[i])
        /\ (\E i \in 1..Len(Fetched) : ~ValidProjectDoc(Fetched[i])) => last.body = Fallback

C9_Witness ==
    /\ IsProjects
    /\ module = "ready"
    /\ ~last.in.fails
    /\ Len(project) = 3
    /\ ValidProjectDoc(project[1])
    /\ ValidProjectDoc(project[2])
    /\ ~ValidProjectDoc(project[3])
    /\ last.body = Fallback

\* C10: every document post_contact has passed to the insert into "contact"
\* satisfies the Contact constraints.
C10_InsertedValid ==
    \A d \in inserts :
        /\ Len(d.name) >= 2
        /\ IsEmail(d.email)
        /\ Len(d.message) >= 10
        /\ Len(d.message) <= 2000

C10_Witness ==
    /\ Cardinality(inserts) = 2
    /\ Len(contact) = 1
    /\ IsPost
    /\ last.in.fails

====
